---- MODULE Spec2Model ----
(***************************************************************************)
(* The CSS selector builder of src/05-objects-tasks.js: class CssSelector  *)
(* (selector text, repeats flags, order list) and the cssSelectorBuilder   *)
(* facade.  Text is a sequence of one-character strings, so that           *)
(* concatenation of template literals is sequence concatenation.  The      *)
(* caller reaches combine through the facade only, and the fragment        *)
(* methods and stringify on the handles the facade returned.               *)
(***************************************************************************)
EXTENDS Integers, Sequences, FiniteSets, TLC

\* ------------------------------------------------------------------------
\* Bounds of the exploration (the caller's behaviour, not the program's).
\* ------------------------------------------------------------------------
\* The caller goes on building until the constructor calls and the fragment
\* and combine method calls that returned number this many (a facade call is
\* two of them: new CssSelector(), then the method); stringify() and calls
\* that throw are not counted.
MaxCalls == 6

\* The value texts the caller passes: two for the kinds that may repeat on
\* one object, so that the order of two fragments of one kind shows in the
\* text, and one for the kinds that may not.
Values == {<<"a">>, <<"b">>}
ValuesOf(kind) ==
  IF kind \in {"class", "attr", "pseudoClass"} THEN Values ELSE {<<"a">>}

\* The combinator texts the caller passes.
Combinators == {<<"+">>, <<" ">>}

\* ------------------------------------------------------------------------
\* The program.
\* ------------------------------------------------------------------------
Kinds == {"element", "id", "class", "attr", "pseudoClass", "pseudoElement"}

\* this.orderValue, set by the constructor.
orderValue ==
  [element |-> 0, id |-> 1, class |-> 2, attr |-> 3, pseudoClass |-> 4,
   pseudoElement |-> 5]

\* The two messages the fragment methods throw; NoError: the call returned.
DuplicateError ==
  "Element, id and pseudo-element should not occur more then one time inside the selector"
OrderError ==
  "Selector parts should be arranged in the following order: element, id, class, attribute, pseudo-class, pseudo-element"
NoError == "none"

\* new CssSelector(): empty text, no repeats flag set, empty order.
\* repeats is the set of the keys of this.repeats that hold true.
constructor == [selector |-> <<>>, repeats |-> {}, order |-> <<>>]

\* Slips of the kind this code invites, each defined ahead of the definition
\* it is a slip of; the claims are shown to tell the code from them.
\* checkOrder comparing with the first recorded kind only.
checkOrder_firstOnly(this, value) ==
  this.order = <<>> \/ ~(orderValue[value] < orderValue[this.order[1]])

\* checkOrder with <= for <: a kind may not follow itself.
checkOrder_strict(this, value) ==
  \A i \in 1..Len(this.order) : ~(orderValue[value] <= orderValue[this.order[i]])

\* checkOrder(value): false as soon as one recorded kind outranks value.
checkOrder(this, value) ==
  \A i \in 1..Len(this.order) : ~(orderValue[value] < orderValue[this.order[i]])

\* A method either throws (the object is as the method left it at the throw)
\* or returns this; returns tells what the caller is handed.
Throw(this, message) == [this |-> this, thrown |-> message, returns |-> "nothing"]

\* A method handing back a copy of the object for the object itself.
Return_copy(this) == [this |-> this, thrown |-> NoError, returns |-> "copy"]

\* return this.
Return(this) == [this |-> this, thrown |-> NoError, returns |-> "this"]

\* element testing the order before the repeats.
element_orderCheckFirst(this, value) ==
  IF ~checkOrder(this, "element") THEN Throw(this, OrderError)
  ELSE IF "element" \in this.repeats THEN Throw(this, DuplicateError)
  ELSE Return([selector |-> this.selector \o value,
               repeats |-> this.repeats \cup {"element"},
               order |-> Append(this.order, "element")])

\* element(element): at most once, in order, appended as it is.
element(this, value) ==
  IF "element" \in this.repeats THEN Throw(this, DuplicateError)
  ELSE IF ~checkOrder(this, "element") THEN Throw(this, OrderError)
  ELSE Return([selector |-> this.selector \o value,
               repeats |-> this.repeats \cup {"element"},
               order |-> Append(this.order, "element")])

\* id without its repeats test.
id_noDuplicateCheck(this, value) ==
  IF ~checkOrder(this, "id") THEN Throw(this, OrderError)
  ELSE Return([selector |-> this.selector \o <<"#">> \o value,
               repeats |-> this.repeats \cup {"id"},
               order |-> Append(this.order, "id")])

id(this, value) ==
  IF "id" \in this.repeats THEN Throw(this, DuplicateError)
  ELSE IF ~checkOrder(this, "id") THEN Throw(this, OrderError)
  ELSE Return([selector |-> this.selector \o <<"#">> \o value,
               repeats |-> this.repeats \cup {"id"},
               order |-> Append(this.order, "id")])

\* class appending to the text before it checks the order.
class_appendBeforeCheck(this, className) ==
  LET appended == [this EXCEPT !.selector = @ \o <<".">> \o className] IN
    IF ~checkOrder(this, "class") THEN Throw(appended, OrderError)
    ELSE Return([appended EXCEPT !.order = Append(@, "class")])

\* class given the repeats test of element, id and pseudoElement.
class_singleton(this, className) ==
  IF "class" \in this.repeats THEN Throw(this, DuplicateError)
  ELSE IF ~checkOrder(this, "class") THEN Throw(this, OrderError)
  ELSE Return([selector |-> this.selector \o <<".">> \o className,
               repeats |-> this.repeats \cup {"class"},
               order |-> Append(this.order, "class")])

class(this, className) ==
  IF ~checkOrder(this, "class") THEN Throw(this, OrderError)
  ELSE Return([this EXCEPT !.selector = @ \o <<".">> \o className,
                           !.order = Append(@, "class")])

\* attr recording its kind in repeats as the singleton kinds do.
attr_recordsKind(this, value) ==
  IF ~checkOrder(this, "attr") THEN Throw(this, OrderError)
  ELSE Return([selector |-> this.selector \o <<"[">> \o value \o <<"]">>,
               repeats |-> this.repeats \cup {"attr"},
               order |-> Append(this.order, "attr")])

\* attr without its order check.
attr_noOrderCheck(this, value) ==
  Return([this EXCEPT !.selector = @ \o <<"[">> \o value \o <<"]">>,
                      !.order = Append(@, "attr")])

attr(this, value) ==
  IF ~checkOrder(this, "attr") THEN Throw(this, OrderError)
  ELSE Return([this EXCEPT !.selector = @ \o <<"[">> \o value \o <<"]">>,
                           !.order = Append(@, "attr")])

\* pseudoClass without its order check.
pseudoClass_noOrderCheck(this, value) ==
  Return([this EXCEPT !.selector = @ \o <<":">> \o value,
                      !.order = Append(@, "pseudoClass")])

\* pseudoClass with = for +=.
pseudoClass_overwrite(this, value) ==
  IF ~checkOrder(this, "pseudoClass") THEN Throw(this, OrderError)
  ELSE Return([this EXCEPT !.selector = <<":">> \o value,
                           !.order = Append(@, "pseudoClass")])

pseudoClass(this, value) ==
  IF ~checkOrder(this, "pseudoClass") THEN Throw(this, OrderError)
  ELSE Return([this EXCEPT !.selector = @ \o <<":">> \o value,
                           !.order = Append(@, "pseudoClass")])

\* pseudoElement with the template of pseudoClass.
pseudoElement_singleColon(this, value) ==
  IF "pseudoElement" \in this.repeats THEN Throw(this, DuplicateError)
  ELSE IF ~checkOrder(this, "pseudoElement") THEN Throw(this, OrderError)
  ELSE Return([selector |-> this.selector \o <<":">> \o value,
               repeats |-> this.repeats \cup {"pseudoElement"},
               order |-> Append(this.order, "pseudoElement")])

pseudoElement(this, value) ==
  IF "pseudoElement" \in this.repeats THEN Throw(this, DuplicateError)
  ELSE IF ~checkOrder(this, "pseudoElement") THEN Throw(this, OrderError)
  ELSE Return([selector |-> this.selector \o <<":", ":">> \o value,
               repeats |-> this.repeats \cup {"pseudoElement"},
               order |-> Append(this.order, "pseudoElement")])

\* combine taking over the second operand's order and repeats with its text.
combine_keepsOperandState(this, selector1, combinator, selector2) ==
  Return([selector |-> selector1.selector \o <<" ">> \o combinator \o <<" ">>
                         \o selector2.selector,
          repeats |-> selector2.repeats,
          order |-> selector2.order])

\* combine with its operands swapped.
combine_swapped(this, selector1, combinator, selector2) ==
  Return([this EXCEPT !.selector =
            selector2.selector \o <<" ">> \o combinator \o <<" ">> \o selector1.selector])

\* combine with the blank before the combinator left out of the template.
combine_noBlankBefore(this, selector1, combinator, selector2) ==
  Return([this EXCEPT !.selector =
            selector1.selector \o combinator \o <<" ">> \o selector2.selector])

\* combine(selector1, combinator, selector2): overwrites this.selector.
combine(this, selector1, combinator, selector2) ==
  Return([this EXCEPT !.selector =
            selector1.selector \o <<" ">> \o combinator \o <<" ">> \o selector2.selector])

\* stringify built from a template literal with a stray blank.
stringify_trailingBlank(this) == this.selector \o <<" ">>

\* stringify(): the text.
stringify(this) == this.selector

\* The method a call of the given name reaches.
Method(kind, this, value) ==
  CASE kind = "element" -> element(this, value)
    [] kind = "id" -> id(this, value)
    [] kind = "class" -> class(this, value)
    [] kind = "attr" -> attr(this, value)
    [] kind = "pseudoClass" -> pseudoClass(this, value)
    [] kind = "pseudoElement" -> pseudoElement(this, value)

\* ------------------------------------------------------------------------
\* The facade, on the heap of objects allocated so far (a handle is an index
\* into it): the heap after the call, the handle returned, the error thrown.
\* ------------------------------------------------------------------------
\* cssSelectorBuilder.element ... pseudoElement: a new CssSelector, the
\* method called on it, the method's result returned.
cssSelectorBuilder_fragment(objects, kind, value) ==
  LET r == Method(kind, constructor, value) IN
    [heap |-> IF r.thrown = NoError THEN Append(objects, r.this) ELSE objects,
     handle |-> Len(objects) + 1,
     thrown |-> r.thrown]

\* The facade calling combine on selector1 instead of on a new CssSelector.
cssSelectorBuilder_combine_onFirst(objects, h1, combinator, h2) ==
  LET r == combine(objects[h1], objects[h1], combinator, objects[h2]) IN
    [heap |-> [objects EXCEPT ![h1] = r.this],
     handle |-> h1,
     thrown |-> r.thrown]

\* cssSelectorBuilder.combine: a new CssSelector, combine called on it.
cssSelectorBuilder_combine(objects, h1, combinator, h2) ==
  LET r == combine(constructor, objects[h1], combinator, objects[h2]) IN
    [heap |-> Append(objects, r.this),
     handle |-> Len(objects) + 1,
     thrown |-> r.thrown]

\* ------------------------------------------------------------------------
\* State.
\* ------------------------------------------------------------------------
VARIABLES
  heap,      \* the CssSelector objects allocated so far
  self,      \* the handle the last call was made on; 0: on the facade
  thrown,    \* the error the last call threw, or NoError
  returned,  \* what it returned: <<"handle", h>>, <<"text", t>>, <<"nothing">>
  log,       \* history: per object, the <<kind, value>> calls that returned
  made       \* history: per object, the facade call that returned it

vars == <<heap, self, thrown, returned, log, made>>

Handles == 1..Len(heap)

\* The number of constructor, fragment and combine calls that have returned.
Calls ==
  LET RECURSIVE Sum(_)
      Sum(n) == IF n = 0 THEN 0
                ELSE 1 + Len(log[n]) + (IF made[n].by = "combine" THEN 1 ELSE 0)
                     + Sum(n - 1)
  IN Sum(Len(log))

\* The history entry of the object a facade call returned.
ByFragment == [by |-> "fragment", from |-> <<>>, with |-> <<>>]
ByCombine(h1, combinator, h2) ==
  [by |-> "combine", from |-> <<h1, h2>>, with |-> combinator]

\* The histories after a facade call returned handle h: h is a new object, or
\* (were the facade to hand back an object it was given) one already there.
Record(history, h, entry) ==
  IF h > Len(history) THEN Append(history, entry)
  ELSE [history EXCEPT ![h] = entry]

Init ==
  /\ heap = <<>>
  /\ self = 0
  /\ thrown = NoError
  /\ returned = <<"nothing">>
  /\ log = <<>>
  /\ made = <<>>

\* builder.element(value) ... builder.pseudoElement(value).
FacadeFragment(kind, value) ==
  /\ Calls + 1 < MaxCalls
  /\ LET r == cssSelectorBuilder_fragment(heap, kind, value) IN
       /\ heap' = r.heap
       /\ self' = 0
       /\ thrown' = r.thrown
       /\ IF r.thrown = NoError
            THEN /\ returned' = <<"handle", r.handle>>
                 /\ log' = Record(log, r.handle, <<<<kind, value>>>>)
                 /\ made' = Record(made, r.handle, ByFragment)
            ELSE /\ returned' = <<"nothing">>
                 /\ UNCHANGED <<log, made>>

\* The heap after a method called on h ended as r tells, and the handle the
\* caller is handed: h itself for "this", a new object for a copy.
MethodCall(objects, h, r) ==
  LET after == [objects EXCEPT ![h] = r.this] IN
    IF r.returns = "copy"
      THEN [heap |-> Append(after, r.this), handle |-> Len(objects) + 1]
      ELSE [heap |-> after, handle |-> h]

\* h.element(value) ... h.pseudoElement(value) on a handle the caller holds.
ChainFragment(h, kind, value) ==
  /\ h \in Handles
  /\ Calls < MaxCalls
  /\ self' = h
  /\ LET r == Method(kind, heap[h], value)
         out == MethodCall(heap, h, r)
         logged == [log EXCEPT ![h] = Append(@, <<kind, value>>)]
     IN /\ thrown' = r.thrown
        /\ IF r.thrown = NoError
             THEN /\ returned' = <<"handle", out.handle>>
                  /\ log' = Record(logged, out.handle, logged[h])
                  /\ made' = Record(made, out.handle, made[h])
             ELSE /\ returned' = <<"nothing">>
                  /\ log' = log
                  /\ made' = made
        /\ heap' = out.heap

\* builder.combine(selector1, combinator, selector2) on two handles held.
FacadeCombine(h1, combinator, h2) ==
  /\ h1 \in Handles /\ h2 \in Handles
  /\ Calls + 1 < MaxCalls
  /\ LET r == cssSelectorBuilder_combine(heap, h1, combinator, h2) IN
       /\ heap' = r.heap
       /\ self' = 0
       /\ thrown' = r.thrown
       /\ returned' = <<"handle", r.handle>>
       /\ log' = Record(log, r.handle, <<>>)
       /\ made' = Record(made, r.handle, ByCombine(h1, combinator, h2))

\* h.stringify().
Stringify(h) ==
  /\ h \in Handles
  /\ self' = h
  /\ thrown' = NoError
  /\ returned' = <<"text", stringify(heap[h])>>
  /\ UNCHANGED <<heap, log, made>>

Next ==
  \/ \E kind \in Kinds : \E value \in ValuesOf(kind) : FacadeFragment(kind, value)
  \/ \E h \in Handles, kind \in Kinds :
       \E value \in ValuesOf(kind) : ChainFragment(h, kind, value)
  \/ \E h1 \in Handles, h2 \in Handles, combinator \in Combinators :
       FacadeCombine(h1, combinator, h2)
  \/ \E h \in Handles : Stringify(h)

Spec == Init /\ [][Next]_vars

\* ------------------------------------------------------------------------
\* What the claims speak of, read off the histories and not off the
\* program's own bookkeeping.
\* ------------------------------------------------------------------------
Singletons == {"element", "id", "pseudoElement"}
Repeatables == {"class", "attr", "pseudoClass"}

\* The rank of a kind, as the claims list it.
Rank(kind) ==
  CASE kind = "element" -> 0 [] kind = "id" -> 1 [] kind = "class" -> 2
    [] kind = "attr" -> 3 [] kind = "pseudoClass" -> 4 [] kind = "pseudoElement" -> 5

\* The kinds of the fragment calls that returned on h, in call order.
KindsOf(calls) == [i \in 1..Len(calls) |-> calls[i][1]]
AcceptedKinds(h) == {log[h][i][1] : i \in 1..Len(log[h])}

AlreadyAccepted(h, kind) == kind \in Singletons /\ kind \in AcceptedKinds(h)
OutOfOrder(h, kind) == \E j \in AcceptedKinds(h) : Rank(kind) < Rank(j)

\* This step is a call h.kind(value), for some value text.  (The first two
\* conjuncts follow from the third; they spare evaluating it on most steps.)
Calling(h, kind) ==
  /\ self' = h
  /\ thrown' = NoError => (log'[h] # <<>> /\ log'[h][Len(log'[h])][1] = kind)
  /\ \E value \in ValuesOf(kind) : ChainFragment(h, kind, value)

\* ------------------------------------------------------------------------
\* C1. On every object made by a facade fragment call, whatever calls
\* followed, the recorded order is non-decreasing by rank and element, id
\* and pseudoElement each occur in it at most once.
\* ------------------------------------------------------------------------
C1_OrderSortedSingletonsOnce ==
  \A h \in Handles :
    made[h].by = "fragment" =>
      LET order == heap[h].order IN
        /\ \A i \in 1..Len(order), j \in 1..Len(order) :
             i < j => Rank(order[i]) <= Rank(order[j])
        /\ \A kind \in Singletons :
             Cardinality({i \in 1..Len(order) : order[i] = kind}) <= 1

\* A call was just rejected on an object that holds three fragments or more,
\* a singleton kind among them.
C1_Witness ==
  /\ self \in Handles
  /\ made[self].by = "fragment"
  /\ thrown # NoError
  /\ Len(heap[self].order) >= 3
  /\ \E i \in 1..Len(heap[self].order) : heap[self].order[i] \in Singletons

\* ------------------------------------------------------------------------
\* C2. A call of element, id or pseudoElement on an object on which that
\* kind was already accepted throws the duplicate-fragment error, whatever
\* was accepted in between.
\* ------------------------------------------------------------------------
C2_DuplicateAlwaysThrows ==
  [][\A kind \in Singletons :
       (self' \in Handles /\ AlreadyAccepted(self', kind) /\ Calling(self', kind))
         => thrown' = DuplicateError]_vars

\* id, then class, then a call that threw the duplicate error: id again.
C2_Witness ==
  /\ self \in Handles
  /\ thrown = DuplicateError
  /\ KindsOf(log[self]) = <<"id", "class">>

\* ------------------------------------------------------------------------
\* C3, as claimed. A call of a kind whose rank is strictly lower than that of
\* a kind already accepted on the object throws the order-violation error.
\* ------------------------------------------------------------------------
C3_LowerRankThrowsOrderError ==
  [][\A kind \in Kinds :
       (self' \in Handles /\ OutOfOrder(self', kind) /\ Calling(self', kind))
         => thrown' = OrderError]_vars

\* C3, amended. Such a call always throws: the order-violation error, unless
\* the kind is element or id and was itself already accepted on the object,
\* and then the duplicate-fragment error.
C3_LowerRankThrows ==
  [][\A kind \in Kinds :
       (self' \in Handles /\ OutOfOrder(self', kind) /\ Calling(self', kind))
         => thrown' = IF AlreadyAccepted(self', kind) THEN DuplicateError
                      ELSE OrderError]_vars

\* class, then pseudoClass, then a call that threw the order error.
C3_Witness ==
  /\ self \in Handles
  /\ thrown = OrderError
  /\ KindsOf(log[self]) = <<"class", "pseudoClass">>

\* ------------------------------------------------------------------------
\* C4. A fragment call is rejected exactly when its kind is a singleton
\* already accepted on the object or its rank is strictly lower than that of
\* a kind already accepted there; a facade fragment call, made on a new
\* object, is never rejected.  The value text plays no part.
\* ------------------------------------------------------------------------
C4_RejectedIff ==
  [][/\ \A kind \in Kinds :
          (self' \in Handles /\ returned'[1] # "text" /\ Calling(self', kind))
            => ((thrown' # NoError)
                  <=> (AlreadyAccepted(self', kind) \/ OutOfOrder(self', kind)))
     /\ \A kind \in Kinds : \A value \in ValuesOf(kind) :
          (self' = 0 /\ FacadeFragment(kind, value)) => thrown' = NoError]_vars

\* A kind was just accepted right after a call of the same kind with another
\* value text.
C4_Witness ==
  /\ self \in Handles
  /\ thrown = NoError
  /\ returned[1] = "handle"
  /\ returned[2] = self
  /\ Len(log[self]) >= 2
  /\ LET n == Len(log[self]) IN
       /\ log[self][n][1] = log[self][n - 1][1]
       /\ log[self][n][2] # log[self][n - 1][2]

\* ------------------------------------------------------------------------
\* C5. A rejected fragment call leaves the object's text, repeats flags and
\* order, and so what stringify() returns, as they were.
\* ------------------------------------------------------------------------
C5_RejectionChangesNothing ==
  [][thrown' # NoError =>
       /\ self' \in Handles
       /\ heap'[self'] = heap[self']
       /\ stringify(heap'[self']) = stringify(heap[self'])
       /\ heap' = heap]_vars

\* A call was just rejected on an object that holds two fragments or more.
C5_Witness ==
  /\ self \in Handles
  /\ thrown \in {DuplicateError, OrderError}
  /\ Len(log[self]) >= 2
  /\ heap[self].selector # <<>>

\* ------------------------------------------------------------------------
\* C6. On an object made by a facade fragment call, stringify() returns the
\* templates of the accepted calls applied to their values (element v -> v,
\* id v -> #v, class v -> .v, attr v -> [v], pseudoClass v -> :v,
\* pseudoElement v -> ::v), concatenated in call order with no separator.
\* ------------------------------------------------------------------------
Template(kind, v) ==
  CASE kind = "element" -> v
    [] kind = "id" -> <<"#">> \o v
    [] kind = "class" -> <<".">> \o v
    [] kind = "attr" -> <<"[">> \o v \o <<"]">>
    [] kind = "pseudoClass" -> <<":">> \o v
    [] kind = "pseudoElement" -> <<":", ":">> \o v

RECURSIVE Concatenation(_)
Concatenation(calls) ==
  IF calls = <<>> THEN <<>>
  ELSE Template(Head(calls)[1], Head(calls)[2]) \o Concatenation(Tail(calls))

C6_StringifyConcatenatesTemplates ==
  (returned[1] = "text" /\ made[self].by = "fragment")
    => returned[2] = Concatenation(log[self])

\* stringify() just returned on an object built by three calls or more, two
\* of them of one kind with different value texts.
C6_Witness ==
  /\ returned[1] = "text"
  /\ made[self].by = "fragment"
  /\ Len(log[self]) >= 3
  /\ \E i \in 1..(Len(log[self]) - 1) :
       /\ log[self][i][1] = log[self][i + 1][1]
       /\ log[self][i][2] # log[self][i + 1][2]

\* ------------------------------------------------------------------------
\* C7. The handle facade combine(left, combinator, right) returns renders as
\* stringify(left) + ' ' + combinator + ' ' + stringify(right), the operands
\* (objects built from fragments or combinations) taken as they are at the
\* call.
\* ------------------------------------------------------------------------
C7_CombineRendersOperands ==
  [][(self' = 0 /\ returned'[1] = "handle" /\ made' # made
        /\ made'[returned'[2]].by = "combine")
       => LET c == returned'[2]
              left == made'[c].from[1]
              right == made'[c].from[2]
          IN stringify(heap'[c]) =
               stringify(heap[left]) \o <<" ">> \o made'[c].with \o <<" ">>
                 \o stringify(heap[right])]_vars

\* combine just returned c, made of a combination on the left and of another
\* object, of another text, on the right.
C7_Witness ==
  /\ self = 0
  /\ returned[1] = "handle"
  /\ made[returned[2]].by = "combine"
  /\ LET left == made[returned[2]].from[1]
         right == made[returned[2]].from[2]
     IN /\ made[left].by = "combine"
        /\ made[right].by = "fragment"
        /\ stringify(heap[left]) # stringify(heap[right])

\* ------------------------------------------------------------------------
\* C8. A class, attr or pseudoClass call never throws the duplicate-fragment
\* error, and is accepted when the last call accepted on the object was of
\* that same kind.
\* ------------------------------------------------------------------------
C8_RepeatablesNeverDuplicate ==
  [][\A kind \in Repeatables :
       (self' \in Handles /\ returned'[1] # "text" /\ Calling(self', kind))
         => /\ thrown' # DuplicateError
            /\ (log[self'] # <<>> /\ log[self'][Len(log[self'])][1] = kind)
                 => thrown' = NoError]_vars

\* Three calls of one repeatable kind in a row were accepted, the last one
\* just now.
C8_Witness ==
  /\ self \in Handles
  /\ thrown = NoError
  /\ returned[1] = "handle"
  /\ returned[2] = self
  /\ Len(log[self]) >= 3
  /\ LET n == Len(log[self]) IN
       /\ log[self][n][1] \in Repeatables
       /\ log[self][n - 1][1] = log[self][n][1]
       /\ log[self][n - 2][1] = log[self][n][1]

\* ------------------------------------------------------------------------
\* C9. No call made on an operand of a combination, accepted or rejected,
\* changes what stringify() returns on the combination.
\* ------------------------------------------------------------------------
C9_CombinationKeepsSnapshot ==
  [][\A c \in Handles :
       (made[c].by = "combine"
          /\ (self' = made[c].from[1] \/ self' = made[c].from[2]))
         => stringify(heap'[c]) = stringify(heap[c])]_vars

\* A fragment was just accepted on the left operand of a combination, which
\* no longer renders as its operands now do.
C9_Witness ==
  \E c \in Handles :
    /\ made[c].by = "combine"
    /\ self = made[c].from[1]
    /\ thrown = NoError
    /\ returned = <<"handle", self>>
    /\ stringify(heap[c]) #
         stringify(heap[made[c].from[1]]) \o <<" ">> \o made[c].with \o <<" ">>
           \o stringify(heap[made[c].from[2]])

\* ------------------------------------------------------------------------
\* C10, as claimed. Once stringify() has returned on an object, no operation
\* changes the object's text.  stringify() can be called in any state and
\* changes nothing, so this holds of every behaviour exactly when it holds
\* of the step that follows a stringify() call.
\* ------------------------------------------------------------------------
C10_FrozenOnceRead ==
  [][returned[1] = "text" => stringify(heap'[self]) = stringify(heap[self])]_vars

\* C10, amended. After stringify() has returned on an object, stringify()
\* and rejected fragment calls leave the object's text as it was, and a
\* fragment call accepted on the object appends its template to the text.
C10_ReadThenOnlyAppended ==
  [][returned[1] = "text" =>
       IF self' = self /\ thrown' = NoError /\ returned' = <<"handle", self>>
         THEN LET last == log'[self][Len(log'[self])] IN
                stringify(heap'[self]) =
                  stringify(heap[self]) \o Template(last[1], last[2])
         ELSE stringify(heap'[self]) = stringify(heap[self])]_vars

\* stringify() just returned the text of an object on which a class call
\* would now be accepted.
C10_Witness ==
  /\ returned[1] = "text"
  /\ returned[2] = stringify(heap[self])
  /\ log[self] # <<>>
  /\ Calls < MaxCalls
  /\ ~OutOfOrder(self, "class")

\* ------------------------------------------------------------------------
\* C11. stringify() is a pure read: it returns the object's text as it is,
\* and leaves the text, the repeats flags and the order of every object as
\* they were; so a second stringify() right after it returns the same text
\* and each fragment call throws after it what it would have thrown before.
\* ------------------------------------------------------------------------
C11_StringifyPureRead ==
  [][returned'[1] = "text" =>
       /\ self' \in Handles
       /\ returned'[2] = heap[self'].selector
       /\ heap' = heap
       /\ stringify(heap'[self']) = returned'[2]
       /\ \A kind \in Kinds : \A value \in ValuesOf(kind) :
            Method(kind, heap'[self'], value).thrown
              = Method(kind, heap[self'], value).thrown]_vars

\* stringify() just returned on a combination that a fragment was appended
\* to, and on which some fragment calls would throw.
C11_Witness ==
  /\ returned[1] = "text"
  /\ made[self].by = "combine"
  /\ log[self] # <<>>
  /\ returned[2] = heap[self].selector
  /\ \E kind \in Kinds : OutOfOrder(self, kind)

\* ------------------------------------------------------------------------
\* The two nestings of combine over three objects a, b, c (handles 1, 2, 3)
\* the facade built from one fragment each, as in the nested example of the
\* source's comment: first combine(combine(a, x, b), y, c), handles 4 and 5,
\* then combine(a, x, combine(b, y, c)), handles 6 and 7.
\* ------------------------------------------------------------------------
\* The state after builder.ka(va), builder.kb(vb), builder.kc(vc).
InitNesting ==
  \E ka \in Kinds, kb \in Kinds, kc \in Kinds :
    \E va \in Values, vb \in Values, vc \in Values :
      LET a == cssSelectorBuilder_fragment(<<>>, ka, va)
          b == cssSelectorBuilder_fragment(a.heap, kb, vb)
          c == cssSelectorBuilder_fragment(b.heap, kc, vc)
      IN /\ heap = c.heap
         /\ self = 0
         /\ thrown = c.thrown
         /\ returned = <<"handle", c.handle>>
         /\ log = <<<<<<ka, va>>>>, <<<<kb, vb>>>>, <<<<kc, vc>>>>>>
         /\ made = <<ByFragment, ByFragment, ByFragment>>

\* builder.combine(selector1, combinator, selector2), whatever was built.
CombineNow(h1, combinator, h2) ==
  LET r == cssSelectorBuilder_combine(heap, h1, combinator, h2) IN
    /\ heap' = r.heap
    /\ self' = 0
    /\ thrown' = r.thrown
    /\ returned' = <<"handle", r.handle>>
    /\ log' = Record(log, r.handle, <<>>)
    /\ made' = Record(made, r.handle, ByCombine(h1, combinator, h2))

InnerLeft == Len(heap) = 3 /\ \E x \in Combinators : CombineNow(1, x, 2)
OuterLeft == Len(heap) = 4 /\ \E y \in Combinators : CombineNow(4, y, 3)
InnerRight == Len(heap) = 5 /\ CombineNow(2, made[5].with, 3)
OuterRight == Len(heap) = 6 /\ CombineNow(1, made[4].with, 6)

NextNesting ==
  \/ InnerLeft
  \/ OuterLeft
  \/ InnerRight
  \/ OuterRight
  \/ \E h \in Handles : Stringify(h)

SpecNesting == InitNesting /\ [][NextNesting]_vars

\* ------------------------------------------------------------------------
\* C12. combine(combine(a, x, b), y, c) and combine(a, x, combine(b, y, c))
\* render alike, both as
\* stringify(a) + ' ' + x + ' ' + stringify(b) + ' ' + y + ' ' + stringify(c).
\* ------------------------------------------------------------------------
C12_NestingAssociative ==
  Len(heap) = 7 =>
    LET flat == heap[1].selector \o <<" ">> \o made[4].with \o <<" ">>
                  \o heap[2].selector \o <<" ">> \o made[5].with \o <<" ">>
                  \o heap[3].selector
    IN /\ stringify(heap[5]) = stringify(heap[7])
       /\ stringify(heap[5]) = flat
       /\ stringify(heap[7]) = flat
       /\ (returned[1] = "text" /\ self \in {5, 7}) => returned[2] = flat

\* Both nestings are built, of three objects of three texts with two
\* combinators, and stringify() just returned on the second.
C12_Witness ==
  /\ Len(heap) = 7
  /\ returned[1] = "text"
  /\ self = 7
  /\ made[4].with # made[5].with
  /\ Cardinality({heap[1].selector, heap[2].selector, heap[3].selector}) = 3

\* ------------------------------------------------------------------------
\* C13. An accepted fragment call hands back the object it was called on,
\* not a copy: the handle returned is the handle called, no object is
\* allocated, and so whatever is later called through either of the two,
\* stringify() returns on both the text of that one object.
\* ------------------------------------------------------------------------
C13_FragmentReturnsThis ==
  [][(self' \in Handles /\ returned'[1] = "handle")
       => /\ returned'[2] = self'
          /\ Len(heap') = Len(heap)
          /\ stringify(heap'[returned'[2]]) = stringify(heap'[self'])]_vars

\* The fourth call of a chain of calls of four kinds was just accepted and
\* returned its handle.
C13_Witness ==
  /\ self \in Handles
  /\ made[self].by = "fragment"
  /\ thrown = NoError
  /\ returned[1] = "handle"
  /\ returned[2] = self
  /\ Len(log[self]) = 4
  /\ Cardinality(AcceptedKinds(self)) = 4

\* ------------------------------------------------------------------------
\* C14. A handle returned by the facade's combine carries none of its
\* operands' ordering or uniqueness state: on a combination handle that has
\* accepted nothing yet, a fragment call of any of the six kinds would be
\* accepted, and the first call made on it is accepted, returns the handle
\* and appends its template text to the end of the combined text.
\* ------------------------------------------------------------------------
C14_CombinationStartsFresh ==
  [][(/\ self' \in Handles
      /\ returned'[1] # "text"
      /\ made[self'].by = "combine"
      /\ log[self'] = <<>>)
       => /\ \A kind \in Kinds : \A value \in ValuesOf(kind) :
               Method(kind, heap[self'], value).thrown = NoError
          /\ thrown' = NoError
          /\ returned' = <<"handle", self'>>
          /\ Len(log'[self']) = 1
          /\ heap'[self'].selector
               = heap[self'].selector
                   \o Template(log'[self'][1][1], log'[self'][1][2])]_vars

\* element was just accepted as the first call on a combination whose first
\* operand had accepted element and a kind of higher rank.
C14_Witness ==
  /\ self \in Handles
  /\ made[self].by = "combine"
  /\ thrown = NoError
  /\ returned[1] = "handle"
  /\ returned[2] = self
  /\ Len(log[self]) = 1
  /\ log[self][1][1] = "element"
  /\ AlreadyAccepted(made[self].from[1], "element")
  /\ OutOfOrder(made[self].from[1], "element")

\* ------------------------------------------------------------------------
\* C15. A call of element, id or pseudoElement that breaks both rules at
\* once (the kind was already accepted on the object and a kind of higher
\* rank was accepted there too) throws the duplicate-fragment error, never
\* the order error, and returns nothing.
\* ------------------------------------------------------------------------
C15_DuplicateBeforeOrder ==
  [][\A kind \in Singletons :
       (/\ self' \in Handles
        /\ thrown' # NoError
        /\ AlreadyAccepted(self', kind)
        /\ OutOfOrder(self', kind)
        /\ Calling(self', kind))
         => /\ thrown' = DuplicateError
            /\ thrown' # OrderError
            /\ returned' = <<"nothing">>]_vars

\* element, then pseudoClass, then a call that threw the duplicate error:
\* element again, which pseudoClass outranks.
C15_Witness ==
  /\ self \in Handles
  /\ thrown = DuplicateError
  /\ KindsOf(log[self]) = <<"element", "pseudoClass">>
  /\ AlreadyAccepted(self, "element")
  /\ OutOfOrder(self, "element")

\* ------------------------------------------------------------------------
\* C16. On every object checkOrder answers for every kind as the comparison
\* with the kind accepted last alone would: true exactly when order is empty
\* or the kind's rank is no lower than the rank of the last entry of order.
\* ------------------------------------------------------------------------
C16_CheckOrderIsLastOnly ==
  \A h \in Handles : \A kind \in Kinds :
    LET order == heap[h].order IN
      checkOrder(heap[h], kind)
        <=> (order = <<>> \/ orderValue[kind] >= orderValue[order[Len(order)]])

\* A call was rejected by checkOrder on an object that had accepted three
\* kinds of rising rank, and the kind attr passes against the first two
\* entries of order and fails against the last.
C16_Witness ==
  /\ self \in Handles
  /\ thrown = OrderError
  /\ heap[self].order = <<"element", "class", "pseudoClass">>
  /\ ~checkOrder(heap[self], "attr")
  /\ checkOrder([heap[self] EXCEPT !.order = <<"element", "class">>], "attr")

\* The order and repeats of object h before a step: those of a new object
\* when the step allocates h.
OrderBefore(h) == IF h \in Handles THEN heap[h].order ELSE <<>>
RepeatsBefore(h) == IF h \in Handles THEN heap[h].repeats ELSE {}

\* The kinds occurring in an order.
KindsIn(order) == {order[i] : i \in 1..Len(order)}

\* ------------------------------------------------------------------------
\* C17, as claimed. Every accepted fragment call pushes its kind last onto
\* the object's order and records it in repeats, so that repeats is exactly
\* the set of the kinds occurring in order.
\* ------------------------------------------------------------------------
C17_RepeatsAreKindsOfOrder ==
  [][\A h \in 1..Len(heap') :
       heap'[h].order # OrderBefore(h)
         => LET kind == log'[h][Len(log'[h])][1] IN
              /\ heap'[h].order = Append(OrderBefore(h), kind)
              /\ kind \in heap'[h].repeats
              /\ heap'[h].repeats = KindsIn(heap'[h].order)]_vars

\* ------------------------------------------------------------------------
\* C17, amended. Every accepted fragment call pushes its kind last onto the
\* object's order; it records the kind in repeats exactly when the kind is
\* element, id or pseudoElement and leaves repeats alone otherwise, so that
\* repeats is exactly the set of the singleton kinds occurring in order.
\* ------------------------------------------------------------------------
C17_RepeatsAreSingletonsOfOrder ==
  [][\A h \in 1..Len(heap') :
       heap'[h].order # OrderBefore(h)
         => LET kind == log'[h][Len(log'[h])][1] IN
              /\ heap'[h].order = Append(OrderBefore(h), kind)
              /\ heap'[h].repeats
                   = RepeatsBefore(h) \cup ({kind} \cap Singletons)
              /\ kind \in heap'[h].repeats <=> kind \in Singletons
              /\ heap'[h].repeats = KindsIn(heap'[h].order) \cap Singletons]_vars

\* pseudoElement was just accepted on an object that had accepted id and
\* attr: the three kinds are in order, the two singletons in repeats.
C17_Witness ==
  /\ self \in Handles
  /\ thrown = NoError
  /\ returned[1] = "handle"
  /\ returned[2] = self
  /\ heap[self].order = <<"id", "attr", "pseudoElement">>
  /\ heap[self].repeats = {"id", "pseudoElement"}

====
